---- MODULE Spec2Model ----
(***************************************************************************)
(* Snapshot engine of the stack monitor (stack_monitor_prompt.py and       *)
(* stack_monitor_textual.py): error-count cache, port probe, classifier,   *)
(* context resolution, row building, profile grouping and the refresh      *)
(* loop of both front ends.                                                *)
(*                                                                         *)
(* Text that the program formats, parses or searches (error display, port  *)
(* label, log lines, container ids, refresh strings) is a sequence of      *)
(* one-character strings; text that is only compared for equality (state   *)
(* and health labels, service and profile names) is a TLA+ string.         *)
(***************************************************************************)
EXTENDS Integers, Sequences, FiniteSets, TLC

\* ------------------------------------------------------------------ bounds
\* clock readings are 0, window, ..., MaxTick * window in the refresh loop and
\* 0, window/2, ..., MaxCallTick * window/2 in the cache harness
MaxTick == 1
MaxCallTick == 2
\* 'r' presses not yet served: buffered by the terminal or waiting as a task
MaxPending == 1
\* lines returned by one `docker logs` call
MaxLogLines == 1
\* port bindings of one service in the port-probe harness
MaxPorts == 3

\* refreshes of the snapshot harness
MaxRefresh == 2

\* ------------------------------------------------------------- text helpers
Range(s) == {s[i] : i \in 1..Len(s)}

Min(a, b) == IF a < b THEN a ELSE b

DigitChars == <<"0", "1", "2", "3", "4", "5", "6", "7", "8", "9">>

IsDigit(c) == c \in Range(DigitChars)

DigitVal(c) == (CHOOSE d \in 1..10 : DigitChars[d] = c) - 1

IsSpace(c) == c \in {" ", "\t", "\n"}

RECURSIVE NatToStr(_)
NatToStr(n) ==
  IF n < 10 THEN <<DigitChars[n + 1]>>
  ELSE NatToStr(n \div 10) \o <<DigitChars[(n % 10) + 1]>>

\* str(n) of a Python int
str(n) == IF n < 0 THEN <<"-">> \o NatToStr(0 - n) ELSE NatToStr(n)

RECURSIVE lstrip(_)
lstrip(s) == IF s # <<>> /\ IsSpace(Head(s)) THEN lstrip(Tail(s)) ELSE s

RECURSIVE rstrip(_)
rstrip(s) ==
  IF s # <<>> /\ IsSpace(s[Len(s)]) THEN rstrip(SubSeq(s, 1, Len(s) - 1)) ELSE s

strip(s) == rstrip(lstrip(s))

RECURSIVE DigitsVal(_)
DigitsVal(s) ==
  IF s = <<>> THEN 0
  ELSE 10 * DigitsVal(SubSeq(s, 1, Len(s) - 1)) + DigitVal(s[Len(s)])

ValueError == [ok |-> FALSE, v |-> 0]

\* int(text) of a Python str: surrounding whitespace, an optional sign, digits
int(text) ==
  LET t == strip(text)
      signed == t # <<>> /\ Head(t) \in {"+", "-"}
      body == IF signed THEN Tail(t) ELSE t
  IN IF body # <<>> /\ \A i \in 1..Len(body) : IsDigit(body[i])
     THEN [ok |-> TRUE,
           v |-> IF signed /\ Head(t) = "-" THEN 0 - DigitsVal(body) ELSE DigitsVal(body)]
     ELSE ValueError

startswith(text, prefix) ==
  Len(text) >= Len(prefix) /\ SubSeq(text, 1, Len(prefix)) = prefix

\* re.search of a literal: the literal occurs somewhere in the line
Contains(line, lit) ==
  \E i \in 1..(Len(line) - Len(lit) + 1) : SubSeq(line, i, i + Len(lit) - 1) = lit

Dash == <<"-">>

NA == <<"n", "/", "a">>

\* ------------------------------------------------------------ ErrorCountCache
\* ERR_PAT = re.compile(r"(ERROR|Error|error|CRIT|FATAL)")
ERR_PAT ==
  { <<"E", "R", "R", "O", "R">>, <<"E", "r", "r", "o", "r">>, <<"e", "r", "r", "o", "r">>,
    <<"C", "R", "I", "T">>, <<"F", "A", "T", "A", "L">> }

ERR_PAT_search(line) == \E lit \in ERR_PAT : Contains(line, lit)

\* default of count_errors' parameter `window`
window == 10

\* what `docker logs` answers: it raised (non-zero exit, docker missing), or
\* the lines of out.splitlines()
ScanFailed == [failed |-> TRUE, lines |-> <<>>]

ScanOutput(lines) == [failed |-> FALSE, lines |-> lines]

\* cnt after the loop over out.splitlines()
CountMatches(lines) == Cardinality({i \in 1..Len(lines) : ERR_PAT_search(lines[i])})

\* cache[cid] = {"ts": now, "count": cnt}
CachePut(cache, cid, now, cnt) ==
  [k \in DOMAIN cache \cup {cid} |->
     IF k = cid THEN [ts |-> now, count |-> cnt] ELSE cache[k]]

\* a freshness test with the comparison turned round
CacheFreshInverted(cache, cid, now) ==
  cid \in DOMAIN cache /\ now - cache[cid].ts > window

\* a freshness test that never finds the entry fresh
CacheFreshNever(cache, cid, now) == FALSE

\* the freshness test `last and now - last["ts"] < window`
CacheFresh(cache, cid, now) == cid \in DOMAIN cache /\ now - cache[cid].ts < window

\* count_errors without its `if not enabled` guard
count_errorsUnguarded(cid, cache, now, enabled, out) ==
  IF CacheFresh(cache, cid, now)
  THEN [ret |-> cache[cid].count, cache |-> cache, scanned |-> FALSE]
  ELSE IF out.failed
       THEN [ret |-> -1, cache |-> CachePut(cache, cid, now, -1), scanned |-> TRUE]
  ELSE [ret |-> CountMatches(out.lines),
        cache |-> CachePut(cache, cid, now, CountMatches(out.lines)),
        scanned |-> TRUE]

\* count_errors(cid, cache, now, enabled=...), `out` being what `docker logs`
\* would answer; gives the return value, the cache afterwards and whether
\* `docker logs` was run
count_errors(cid, cache, now, enabled, out) ==
  IF ~enabled THEN [ret |-> -2, cache |-> cache, scanned |-> FALSE]
  ELSE IF CacheFresh(cache, cid, now)
       THEN [ret |-> cache[cid].count, cache |-> cache, scanned |-> FALSE]
  ELSE IF out.failed
       THEN [ret |-> -1, cache |-> CachePut(cache, cid, now, -1), scanned |-> TRUE]
  ELSE [ret |-> CountMatches(out.lines),
        cache |-> CachePut(cache, cid, now, CountMatches(out.lines)),
        scanned |-> TRUE]

\* a count_errors call as its caller sees it: the arguments, whether the cache
\* held the id before, what `docker logs` answered when it was run, the value
\* returned, whether `docker logs` was run
NoCall ==
  [called |-> FALSE, cid |-> <<>>, now |-> 0, enabled |-> FALSE, had |-> FALSE,
   out |-> ScanFailed, ret |-> 0, scanned |-> FALSE]

CallRecord(cid, cache, now, enabled, out, res) ==
  [called |-> TRUE, cid |-> cid, now |-> now, enabled |-> enabled,
   had |-> cid \in DOMAIN cache, out |-> IF res.scanned THEN out ELSE ScanFailed,
   ret |-> res.ret, scanned |-> res.scanned]

\* ------------------------------------------------------------------ PortProbe
\* ok = 0, total = 0 before the loop; `tried` lists the bindings connected to
ProbeStart == [i |-> 1, ok |-> 0, total |-> 0, tried |-> <<>>]

\* an iteration that counts a binding only when its connection succeeds
probe_connectCountsReached(st, conn) ==
  [i |-> st.i + 1,
   ok |-> IF conn[st.i] THEN st.ok + 1 ELSE st.ok,
   total |-> IF conn[st.i] THEN st.total + 1 ELSE st.total,
   tried |-> Append(st.tried, st.i)]

\* one iteration of `for host, port in port_defs`; conn[i] says whether
\* socket.create_connection to binding i succeeds
probe_connect(st, conn) ==
  [i |-> st.i + 1,
   ok |-> IF conn[st.i] THEN st.ok + 1 ELSE st.ok,
   total |-> st.total + 1,
   tried |-> Append(st.tried, st.i)]

\* the aggregate label returned after the loop
probe_label(ok, total) ==
  IF total = 0 THEN Dash
  ELSE IF ok = total THEN <<"O", "K", "(">> \o str(ok) \o <<"/">> \o str(total) \o <<")">>
  ELSE IF ok = 0 THEN <<"F", "A", "I", "L">>
  ELSE <<"P", "A", "R", "T", "(">> \o str(ok) \o <<"/">> \o str(total) \o <<")">>

RECURSIVE probe_loop(_, _, _)
probe_loop(port_defs, conn, st) ==
  IF st.i > Len(port_defs) THEN st
  ELSE probe_loop(port_defs, conn, probe_connect(st, conn))

probe_ports(port_defs, conn) ==
  IF port_defs = <<>> THEN Dash
  ELSE LET st == probe_loop(port_defs, conn, ProbeStart)
       IN probe_label(st.ok, st.total)

\* ----------------------------------------------------------------- Classifier
style_state(text) ==
  IF text = "running" THEN "class:green"
  ELSE IF text \in {"restarting", "starting"} THEN "class:yellow"
  ELSE "class:red"

style_health(text) ==
  IF text \in {"healthy", "n/a"} THEN "class:green"
  ELSE IF text = "starting" THEN "class:yellow"
  ELSE "class:red"

\* an error classifier that shows the `-` sentinel as a zero count
style_errorsDashGreen(text) ==
  IF text \in {Dash, NA} THEN (IF text = NA THEN "class:yellow" ELSE "class:green")
  ELSE LET cnt == int(text)
       IN IF ~cnt.ok THEN ""
          ELSE IF cnt.v = 0 THEN "class:green"
          ELSE IF cnt.v < 3 THEN "class:yellow"
          ELSE "class:red"

style_errors(text) ==
  IF text \in {Dash, NA} THEN (IF text = NA THEN "class:yellow" ELSE "")
  ELSE LET cnt == int(text)
       IN IF ~cnt.ok THEN ""
          ELSE IF cnt.v = 0 THEN "class:green"
          ELSE IF cnt.v < 3 THEN "class:yellow"
          ELSE "class:red"

style_ports(text) ==
  IF startswith(text, <<"O", "K">>) THEN "class:green"
  ELSE IF startswith(text, <<"F", "A", "I", "L">>) THEN "class:red"
  ELSE IF startswith(text, <<"P", "A", "R", "T">>) THEN "class:yellow"
  ELSE ""

\* MonitorApp._row_styles of the Textual front end
row_styles(state, health, err, ports) ==
  << IF state = "running" THEN "green"
     ELSE IF state \in {"restarting", "starting"} THEN "yellow"
     ELSE "red",
     IF health \in {"healthy", "n/a"} THEN "green"
     ELSE IF health = "starting" THEN "yellow"
     ELSE "red",
     IF err \in {Dash, NA} THEN (IF err = NA THEN "yellow" ELSE "")
     ELSE LET cnt == int(err)
          IN IF ~cnt.ok THEN ""
             ELSE IF cnt.v = 0 THEN "green"
             ELSE IF cnt.v < 3 THEN "yellow"
             ELSE "red",
     IF startswith(ports, <<"O", "K">>) THEN "green"
     ELSE IF startswith(ports, <<"F", "A", "I", "L">>) THEN "red"
     ELSE IF startswith(ports, <<"P", "A", "R", "T">>) THEN "yellow"
     ELSE "" >>

\* ------------------------------------------------------------ SnapshotBuilder
\* what `compose ps -q <service>` answers: it raised, or the lines of
\* out.strip().splitlines()
PsFailed == [failed |-> TRUE, lines |-> <<>>]

PsOutput(lines) == [failed |-> FALSE, lines |-> lines]

get_container_id(ps) ==
  IF ps.failed THEN <<>>
  ELSE IF ps.lines = <<>> THEN <<>>
  ELSE ps.lines[1]

\* a key the inspected JSON document does not carry
Missing == "<missing>"

\* what `docker inspect` answers: it raised or was not JSON, or State.Status and
\* State.Health.Status of the document (Missing when absent)
InspectFailed == [failed |-> TRUE, Status |-> Missing, Health |-> Missing]

InspectDoc(status, health) == [failed |-> FALSE, Status |-> status, Health |-> health]

\* an inspection that reports a container it could not inspect as running
inspect_containerOptimistic(res) ==
  IF res.failed THEN [status |-> "running", health |-> "healthy"]
  ELSE [status |-> IF res.Status = Missing THEN "unknown" ELSE res.Status,
        health |-> IF res.Health = Missing THEN "n/a" ELSE res.Health]

inspect_container(res) ==
  IF res.failed THEN [status |-> "unknown", health |-> "n/a"]
  ELSE [status |-> IF res.Status = Missing THEN "unknown" ELSE res.Status,
        health |-> IF res.Health = Missing THEN "n/a" ELSE res.Health]

\* ctx["port_map"].get(svc, [])
PortMapGet(port_map, svc) == IF svc \in DOMAIN port_map THEN port_map[svc] ELSE <<>>

MetaNames(service_meta) == [i \in 1..Len(service_meta) |-> service_meta[i].name]

\* service_order of the prompt_toolkit front end
service_order(service_meta, selected_services) ==
  IF selected_services # <<>> THEN selected_services
  ELSE IF service_meta # <<>> THEN MetaNames(service_meta)
  ELSE <<>>

\* the sequence the row loop iterates over
LoopOrder(im, c) ==
  IF im = "prompt" THEN service_order(c.service_meta, c.services)
  ELSE IF c.service_meta # <<>> THEN MetaNames(c.service_meta) ELSE c.services

\* the `continue` test at the head of the row loop
Skipped(im, c, svc) ==
  IF im = "prompt" THEN c.services # <<>> /\ svc \notin Range(c.services)
  ELSE svc \notin Range(c.services)

\* cid[:12]
CidDisplayLen == 12

CidDisplay(cid) == IF cid = <<>> THEN Dash ELSE SubSeq(cid, 1, Min(CidDisplayLen, Len(cid)))

\* err_txt from count_errors' return value
ErrText(err_cnt) ==
  IF err_cnt = -2 THEN Dash
  ELSE IF err_cnt < 0 THEN NA
  ELSE str(err_cnt)

\* a down row that still reports a port probe
DownRowProbed(svc) ==
  [cid |-> Dash, service |-> svc, state |-> "down", health |-> "-",
   errors |-> Dash, ports |-> <<"F", "A", "I", "L">>]

\* the row of a service with no running container
DownRow(svc) ==
  [cid |-> Dash, service |-> svc, state |-> "down", health |-> "-",
   errors |-> Dash, ports |-> Dash]

\* what the outside world answers during one iteration of the row loop
Outcome(ps, insp, out, conn) == [ps |-> ps, insp |-> insp, out |-> out, conn |-> conn]

\* one iteration of the row loop for a displayed service: the row appended and
\* the cache afterwards
BuildRow(c, svc, e, cache, now) ==
  LET cid == get_container_id(e.ps)
  IN IF cid = <<>>
     THEN [row |-> DownRow(svc), cache |-> cache]
     ELSE LET info == inspect_container(e.insp)
              res == count_errors(cid, cache, now, c.log_errors_enabled, e.out)
          IN [row |-> [cid |-> CidDisplay(cid), service |-> svc,
                       state |-> info.status, health |-> info.health,
                       errors |-> ErrText(res.ret),
                       ports |-> IF c.probe_ports_enabled
                                 THEN probe_ports(PortMapGet(c.port_map, svc), e.conn)
                                 ELSE Dash],
              cache |-> res.cache]

\* the row loop from position idx on: env[i] is what the outside world answers
\* during iteration i
RECURSIVE RowLoop(_, _, _, _, _, _, _)
RowLoop(im, c, env, idx, rows, cache, now) ==
  LET order == LoopOrder(im, c)
  IN IF idx > Len(order) THEN [rows |-> rows, cache |-> cache]
     ELSE IF Skipped(im, c, order[idx])
          THEN RowLoop(im, c, env, idx + 1, rows, cache, now)
          ELSE LET b == BuildRow(c, order[idx], env[idx], cache, now)
               IN RowLoop(im, c, env, idx + 1, Append(rows, b.row), b.cache, now)

\* build_rows(ctx, log_cache, now), and the row loop of refresh_data
build_rows(im, c, env, cache, now) == RowLoop(im, c, env, 1, <<>>, cache, now)

\* -------------------------------------------------------------- ProfileGrouper
NoProfile == "(no-profile)"

\* meta_by_name.get(service, []): a later entry of the same name wins
MetaProfiles(service_meta, svc) ==
  LET hits == {i \in 1..Len(service_meta) : service_meta[i].name = svc}
  IN IF hits = {} THEN <<>>
     ELSE service_meta[CHOOSE i \in hits : \A j \in hits : j <= i].profiles

\* a label taken in the configured order: the first profile of profile_order
\* that the service declares
GroupOfByOrder(c, svc) ==
  LET svc_profs == MetaProfiles(c.service_meta, svc)
      hits == {i \in 1..Len(c.profiles) : c.profiles[i] \in Range(svc_profs)}
  IN IF svc_profs = <<>> THEN NoProfile
     ELSE IF c.profiles = <<>> THEN svc_profs[1]
     ELSE IF hits = {} THEN NoProfile
     ELSE c.profiles[CHOOSE i \in hits : \A j \in hits : i <= j]

\* the first declared profile that is in profile_order, or the first declared
\* profile when profile_order is empty; "(no-profile)" when there is none
GroupOf(c, svc) ==
  LET svc_profs == MetaProfiles(c.service_meta, svc)
      hits == {i \in 1..Len(svc_profs) :
                 c.profiles = <<>> \/ svc_profs[i] \in Range(c.profiles)}
  IN IF hits = {} THEN NoProfile
     ELSE svc_profs[CHOOSE i \in hits : \A j \in hits : i <= j]

GroupHeader(g) == [group |-> g]

IsHeader(r) == DOMAIN r = {"group"}

\* the prompt_toolkit grouping loop: a header whenever group != last_group
RECURSIVE GroupPrompt(_, _, _, _)
GroupPrompt(c, rows, last_group, grouped) ==
  IF rows = <<>> THEN grouped
  ELSE LET r == Head(rows)
           group == GroupOf(c, r.service)
       IN IF last_group # <<group>>
          THEN GroupPrompt(c, Tail(rows), <<group>>, grouped \o <<GroupHeader(group), r>>)
          ELSE GroupPrompt(c, Tail(rows), last_group, Append(grouped, r))

\* the Textual grouping loop: a header whenever group not in seen_groups
RECURSIVE GroupTextual(_, _, _, _)
GroupTextual(c, rows, seen_groups, grouped) ==
  IF rows = <<>> THEN grouped
  ELSE LET r == Head(rows)
           group == GroupOf(c, r.service)
       IN IF group \notin Range(seen_groups)
          THEN GroupTextual(c, Tail(rows), Append(seen_groups, group),
                            grouped \o <<GroupHeader(group), r>>)
          ELSE GroupTextual(c, Tail(rows), seen_groups, Append(grouped, r))

\* a grouping that gathers the rows without a profile at the end
GroupRowsGathered(im, c, rows) ==
  LET Labelled(r) == GroupOf(c, r.service) # NoProfile
      Unlabelled(r) == GroupOf(c, r.service) = NoProfile
  IN GroupPrompt(c, SelectSeq(rows, Labelled) \o SelectSeq(rows, Unlabelled), <<>>, <<>>)

\* last_group starts as None (the empty tuple here), seen_groups as []
GroupRows(im, c, rows) ==
  IF im = "prompt" THEN GroupPrompt(c, rows, <<>>, <<>>)
  ELSE GroupTextual(c, rows, <<>>, <<>>)

\* the styles the renderer attaches to a row
RowStyles(im, r) ==
  IF im = "prompt"
  THEN <<style_state(r.state), style_health(r.health), style_errors(r.errors),
         style_ports(r.ports)>>
  ELSE row_styles(r.state, r.health, r.errors, r.ports)

\* the table handed to the toolkit: headers as they are, rows with their styles
Render(im, grouped) ==
  [i \in 1..Len(grouped) |->
     IF IsHeader(grouped[i]) THEN grouped[i]
     ELSE [row |-> grouped[i], styles |-> RowStyles(im, grouped[i])]]

\* ---------------------------------------------------------------- RefreshLoop
VARIABLES
  impl,      \* which front end runs: "prompt" or "textual"
  ctx,       \* the resolved context the app was constructed with
  cache,     \* self.log_cache: container id -> [ts, count]
  inflight,  \* the refreshes that have started and not yet returned
  table,     \* the table model last handed to the toolkit
  ticker,    \* the periodic timer: "unstarted", "created", "sleeping", "due", "refreshing"
  keys,      \* 'r' presses typed and not yet dispatched
  tasks,     \* tasks made by asyncio.create_task(self.refresh()) and not yet run
  lastCall,  \* cache harness: the latest count_errors call
  probe,     \* port-probe harness: one probe_ports call
  sty,       \* classifier harness: the four texts and their styles
  grp,       \* grouper harness: a row sequence and its grouping
  bc,        \* context-resolution harness: the inputs and outcome of build_context
  snap       \* snapshot harness: the latest row loop, what it was answered and built

vars == <<impl, ctx, cache, inflight, table, ticker, keys, tasks, lastCall,
          probe, sty, grp, bc, snap>>

Impls == {"prompt", "textual"}

Times == {t * window : t \in 0..MaxTick}

EmptyCache == [k \in {} |-> [ts |-> 0, count |-> 0]]

\* container ids are 13 characters long; the two containers that can back `web`
\* differ only in the last one. `db` is gated by a profile that is not up: its
\* lookup never yields a container
CidPad == <<"0", "0", "0", "0", "0", "0", "0", "0", "0", "0">>

CidWeb1 == <<"a", "1">> \o CidPad \o <<"e">>

CidWeb2 == <<"a", "1">> \o CidPad \o <<"f">>

CidsOf(svc) == IF svc = "web" THEN {CidWeb1, CidWeb2} ELSE {}

\* the stack of the end-to-end scenario: web publishes localhost:8080, db nothing
DemoPortMap == [s \in {"web", "db"} |-> IF s = "web" THEN <<<<"localhost", 8080>>>> ELSE <<>>]

DemoMeta == <<[name |-> "web", profiles |-> <<"p1">>], [name |-> "db", profiles |-> <<>>]>>

Contexts ==
  { [profiles |-> <<"p1">>, services |-> <<"web", "db">>, port_map |-> DemoPortMap,
     service_meta |-> DemoMeta, probe_ports_enabled |-> pp, log_errors_enabled |-> le]
    : pp \in BOOLEAN, le \in BOOLEAN }

IdleProbe == [pc |-> "idle"]

IdleSty == [pc |-> "idle"]

IdleGrp == [pc |-> "idle"]

IdleBc == [pc |-> "idle"]

IdleSnap == [pc |-> "idle"]

Init ==
  /\ impl \in Impls
  /\ ctx \in Contexts
  /\ cache = EmptyCache
  /\ inflight = <<>>
  /\ table = <<>>
  /\ ticker = "unstarted"
  /\ keys = 0
  /\ tasks = 0
  /\ lastCall = NoCall
  /\ probe = IdleProbe
  /\ sty = IdleSty
  /\ grp = IdleGrp
  /\ bc = IdleBc
  /\ snap = IdleSnap

\* a refresh whose body awaits its blocking work
RefreshSuspendsAtRows(im) == TRUE

\* whether the body of a refresh gives control back to the event loop before it
\* returns: `async def refresh` holds no await, refresh_data is a plain def
RefreshSuspends(im) == FALSE

\* the event loop's thread is not inside a refresh
LoopFree == inflight = <<>> \/ RefreshSuspends(impl)

\* a refresh is entered: now = time.time()
StartRefresh(owner, now) ==
  inflight' = Append(inflight, [byTicker |-> owner = "ticker", now |-> now])

\* the answers the external commands can give
InspectResults == {InspectFailed, InspectDoc("running", "healthy")}

\* a line the pattern matches and one it does not
LogLinePool == {<<"E", "R", "R", "O", "R">>, <<"f", "a", "t", "a", "l">>}

RECURSIVE SeqsUpTo(_, _)
SeqsUpTo(S, n) ==
  IF n = 0 THEN {<<>>}
  ELSE LET shorter == SeqsUpTo(S, n - 1)
       IN shorter \cup {Append(q, x) : q \in {r \in shorter : Len(r) = n - 1}, x \in S}

\* the cache harness draws `docker logs` answers of up to MaxLogLines lines, the
\* refresh loop one of three: it raised, no line, one matching line
LogResults == {ScanFailed} \cup {ScanOutput(ls) : ls \in SeqsUpTo(LogLinePool, MaxLogLines)}

RefreshLogResults ==
  {ScanFailed, ScanOutput(<<>>), ScanOutput(<<<<"E", "R", "R", "O", "R">>>>)}

ConnResults(port_defs) == [1..Len(port_defs) -> BOOLEAN]

\* no container: the lookup printed nothing or (for a service that can have a
\* container) raised, and nothing else is asked
DownOutcomes(svc) ==
  {Outcome(ps, InspectFailed, ScanFailed, <<>>) :
     ps \in IF CidsOf(svc) = {} THEN {PsOutput(<<>>)} ELSE {PsFailed, PsOutput(<<>>)}}

UpOutcomes(c, svc) ==
  {Outcome(PsOutput(<<cid>>), insp, out, conn) :
     cid \in CidsOf(svc), insp \in InspectResults, out \in RefreshLogResults,
     conn \in ConnResults(PortMapGet(c.port_map, svc))}

RECURSIVE Envs(_, _)
Envs(c, order) ==
  IF order = <<>> THEN {<<>>}
  ELSE {<<e>> \o rest : e \in DownOutcomes(Head(order)) \cup UpOutcomes(c, Head(order)),
                        rest \in Envs(c, Tail(order))}

\* run(): self._running = True, the ticker task is created, the first refresh is
\* entered; on_mount(): the interval timer is set, the first refresh is entered
Mount ==
  /\ ticker = "unstarted" /\ inflight = <<>>
  /\ \E now \in Times : StartRefresh("startup", now)
  /\ ticker' = IF impl = "prompt" THEN "created" ELSE "sleeping"
  /\ UNCHANGED <<impl, ctx, cache, table, keys, tasks, lastCall, probe, sty, grp, bc, snap>>

\* the ticker task runs for the first time and goes to sleep
TickerBegin ==
  /\ ticker = "created" /\ LoopFree
  /\ ticker' = "sleeping"
  /\ UNCHANGED <<impl, ctx, cache, inflight, table, keys, tasks, lastCall, probe, sty, grp, bc, snap>>

\* the refresh interval elapses, whatever the loop is doing
SleepElapses ==
  /\ ticker = "sleeping"
  /\ ticker' = "due"
  /\ UNCHANGED <<impl, ctx, cache, inflight, table, keys, tasks, lastCall, probe, sty, grp, bc, snap>>

\* _ticker: await self.refresh(); the interval timer: refresh_data()
TickerRefresh ==
  /\ ticker = "due" /\ LoopFree
  /\ \E now \in Times : StartRefresh("ticker", now)
  /\ ticker' = IF impl = "prompt" THEN "refreshing" ELSE "sleeping"
  /\ UNCHANGED <<impl, ctx, cache, table, keys, tasks, lastCall, probe, sty, grp, bc, snap>>

\* the user types 'r'; the terminal buffers it until the loop reads input
PressR ==
  /\ ticker # "unstarted" /\ keys + tasks < MaxPending
  /\ keys' = keys + 1
  /\ UNCHANGED <<impl, ctx, cache, inflight, table, ticker, tasks, lastCall, probe, sty, grp, bc, snap>>

\* prompt_toolkit's binding of 'r': asyncio.create_task(self.refresh())
KeyBindingR ==
  /\ impl = "prompt" /\ keys > 0 /\ LoopFree
  /\ keys' = keys - 1
  /\ tasks' = tasks + 1
  /\ UNCHANGED <<impl, ctx, cache, inflight, table, ticker, lastCall, probe, sty, grp, bc, snap>>

\* the event loop runs a task created by the key binding
RunTask ==
  /\ tasks > 0 /\ LoopFree
  /\ tasks' = tasks - 1
  /\ \E now \in Times : StartRefresh("task", now)
  /\ UNCHANGED <<impl, ctx, cache, table, ticker, keys, lastCall, probe, sty, grp, bc, snap>>

\* Textual's on_key: event.key == "r" calls refresh_data()
OnKeyR ==
  /\ impl = "textual" /\ keys > 0 /\ LoopFree
  /\ keys' = keys - 1
  /\ \E now \in Times : StartRefresh("on_key", now)
  /\ UNCHANGED <<impl, ctx, cache, table, ticker, tasks, lastCall, probe, sty, grp, bc, snap>>

\* Textual's binding ("r", "refresh_now"): action_refresh_now calls refresh_data()
ActionRefreshNow ==
  /\ impl = "textual" /\ keys > 0 /\ LoopFree
  /\ keys' = keys - 1
  /\ \E now \in Times : StartRefresh("action_refresh_now", now)
  /\ UNCHANGED <<impl, ctx, cache, table, ticker, tasks, lastCall, probe, sty, grp, bc, snap>>

RemoveAt(s, a) == SubSeq(s, 1, a - 1) \o SubSeq(s, a + 1, Len(s))

\* the body of refresh / refresh_data: the rows are built, grouped and handed to
\* the toolkit, and the refresh returns
RefreshBody ==
  /\ \E a \in 1..Len(inflight) :
       \E env \in Envs(ctx, LoopOrder(impl, ctx)) :
         LET built == build_rows(impl, ctx, env, cache, inflight[a].now)
         IN /\ cache' = built.cache
            /\ table' = Render(impl, GroupRows(impl, ctx, built.rows))
            /\ inflight' = RemoveAt(inflight, a)
            /\ ticker' = IF inflight[a].byTicker /\ ticker = "refreshing"
                         THEN "sleeping" ELSE ticker
  /\ UNCHANGED <<impl, ctx, keys, tasks, lastCall, probe, sty, grp, bc, snap>>

Next ==
  \/ Mount
  \/ TickerBegin
  \/ SleepElapses
  \/ TickerRefresh
  \/ PressR
  \/ KeyBindingR
  \/ RunTask
  \/ OnKeyR
  \/ ActionRefreshNow
  \/ RefreshBody

Spec == Init /\ [][Next]_vars

\* ------------------------------------------------------------- cache harness
\* any sequence of count_errors calls on one cache, with any clock readings
CallTimes == {t * (window \div 2) : t \in 0..MaxCallTick}

CallCids == {CidWeb1, CidWeb2}

InitCache ==
  /\ impl = "prompt"
  /\ ctx \in {c \in Contexts : c.probe_ports_enabled /\ c.log_errors_enabled}
  /\ cache = EmptyCache
  /\ inflight = <<>>
  /\ table = <<>>
  /\ ticker = "unstarted"
  /\ keys = 0
  /\ tasks = 0
  /\ lastCall = NoCall
  /\ probe = IdleProbe
  /\ sty = IdleSty
  /\ grp = IdleGrp
  /\ bc = IdleBc
  /\ snap = IdleSnap

CountErrorsCall ==
  /\ \E cid \in CallCids, now \in CallTimes, enabled \in BOOLEAN, out \in LogResults :
       LET res == count_errors(cid, cache, now, enabled, out)
       IN /\ cache' = res.cache
          /\ lastCall' = CallRecord(cid, cache, now, enabled, out, res)
  /\ UNCHANGED <<impl, ctx, inflight, table, ticker, keys, tasks, probe, sty, grp, bc, snap>>

NextCache == CountErrorsCall

SpecCache == InitCache /\ [][NextCache]_vars

\* -------------------------------------------------------- port-probe harness
\* one probe_ports call on any binding list of up to MaxPorts bindings, each
\* connection attempt succeeding or not
PortPool == {<<"localhost", 8080>>, <<"localhost", 5432>>}

ProbeInputs ==
  {[pc |-> "call", port_defs |-> d, conn |-> c, st |-> ProbeStart, result |-> <<>>] :
     d \in SeqsUpTo(PortPool, MaxPorts), c \in SeqsUpTo(BOOLEAN, MaxPorts)}

InitProbe ==
  /\ impl = "prompt"
  /\ ctx \in {c \in Contexts : c.probe_ports_enabled /\ c.log_errors_enabled}
  /\ cache = EmptyCache
  /\ inflight = <<>>
  /\ table = <<>>
  /\ ticker = "unstarted"
  /\ keys = 0
  /\ tasks = 0
  /\ lastCall = NoCall
  /\ probe \in {x \in ProbeInputs : Len(x.conn) = Len(x.port_defs)}
  /\ sty = IdleSty
  /\ grp = IdleGrp
  /\ bc = IdleBc
  /\ snap = IdleSnap

\* `if not port_defs: return "-"`
ProbeEmpty ==
  /\ probe.pc = "call" /\ probe.port_defs = <<>>
  /\ probe' = [probe EXCEPT !.pc = "done", !.result = probe_ports(probe.port_defs, probe.conn)]
  /\ UNCHANGED <<impl, ctx, cache, inflight, table, ticker, keys, tasks, lastCall, sty, grp, bc, snap>>

\* one socket.create_connection attempt
ProbeConnect ==
  /\ probe.pc = "call" /\ probe.port_defs # <<>> /\ probe.st.i <= Len(probe.port_defs)
  /\ probe' = [probe EXCEPT !.st = probe_connect(probe.st, probe.conn)]
  /\ UNCHANGED <<impl, ctx, cache, inflight, table, ticker, keys, tasks, lastCall, sty, grp, bc, snap>>

\* the loop is over: the label is returned
ProbeReturn ==
  /\ probe.pc = "call" /\ probe.port_defs # <<>> /\ probe.st.i > Len(probe.port_defs)
  /\ probe' = [probe EXCEPT !.pc = "done", !.result = probe_label(probe.st.ok, probe.st.total)]
  /\ UNCHANGED <<impl, ctx, cache, inflight, table, ticker, keys, tasks, lastCall, sty, grp, bc, snap>>

NextProbe ==
  \/ ProbeEmpty
  \/ ProbeConnect
  \/ ProbeReturn

SpecProbe == InitProbe /\ [][NextProbe]_vars

\* -------------------------------------------------------- classifier harness
\* the four texts of a row, each from a set that holds what the snapshot builder
\* produces (the sentinels `-` and n/a included) and what it does not
StateTexts == {"running", "restarting", "starting", "exited", "down", "unknown", ""}

HealthTexts == {"healthy", "n/a", "starting", "unhealthy", "-"}

ErrorTexts ==
  { Dash, NA, <<"0">>, <<"1">>, <<"2">>, <<"3">>, <<"1", "2">>, <<"-", "1">>,
    <<" ", "7", " ">>, <<"x">>, <<>> }

PortTexts ==
  { Dash, <<"O", "K", "(", "1", "/", "1", ")">>, <<"F", "A", "I", "L">>,
    <<"P", "A", "R", "T", "(", "1", "/", "2", ")">>, <<"o", "k">>, <<>> }

InitStyle ==
  /\ impl \in Impls
  /\ ctx \in {c \in Contexts : c.probe_ports_enabled /\ c.log_errors_enabled}
  /\ cache = EmptyCache
  /\ inflight = <<>>
  /\ table = <<>>
  /\ ticker = "unstarted"
  /\ keys = 0
  /\ tasks = 0
  /\ lastCall = NoCall
  /\ probe = IdleProbe
  /\ sty \in {[pc |-> "input",
               row |-> [cid |-> Dash, service |-> "web", state |-> st, health |-> h,
                        errors |-> e, ports |-> p],
               styles |-> <<>>] :
                st \in StateTexts, h \in HealthTexts, e \in ErrorTexts, p \in PortTexts}
  /\ grp = IdleGrp
  /\ bc = IdleBc
  /\ snap = IdleSnap

\* the renderer styles the row: style_state .. style_ports, or _row_styles
Classify ==
  /\ sty.pc = "input"
  /\ sty' = [sty EXCEPT !.pc = "styled", !.styles = RowStyles(impl, sty.row)]
  /\ UNCHANGED <<impl, ctx, cache, inflight, table, ticker, keys, tasks, lastCall, probe, grp, bc, snap>>

NextStyle == Classify

SpecStyle == InitStyle /\ [][NextStyle]_vars

\* ----------------------------------------------------------- grouper harness
\* the grouping loop of either front end on any sequence of up to three rows of
\* distinct services a, b, c; c declares one profile, two, none, or is not in
\* the metadata at all
GroupServices == {"a", "b", "c"}

GroupMetas ==
  { <<[name |-> "a", profiles |-> <<"p1">>], [name |-> "b", profiles |-> <<"p2">>],
      [name |-> "c", profiles |-> pc]>> : pc \in {<<"p1">>, <<"p2", "p1">>, <<>>} }
  \cup { <<[name |-> "a", profiles |-> <<"p1">>], [name |-> "b", profiles |-> <<"p2">>]>> }

GroupProfileOrders == {<<"p1", "p2">>, <<"p1">>, <<>>}

GroupRowSeqs ==
  {[i \in 1..Len(q) |-> DownRow(q[i])] :
     q \in {x \in SeqsUpTo(GroupServices, 3) :
              \A i, j \in 1..Len(x) : i # j => x[i] # x[j]}}

InitGroup ==
  /\ impl \in Impls
  /\ ctx \in {c \in Contexts : c.probe_ports_enabled /\ c.log_errors_enabled}
  /\ cache = EmptyCache
  /\ inflight = <<>>
  /\ table = <<>>
  /\ ticker = "unstarted"
  /\ keys = 0
  /\ tasks = 0
  /\ lastCall = NoCall
  /\ probe = IdleProbe
  /\ sty = IdleSty
  /\ grp \in {[pc |-> "input",
               c |-> [profiles |-> po, service_meta |-> m],
               rows |-> rs, labels |-> <<>>, grouped |-> <<>>] :
                po \in GroupProfileOrders, m \in GroupMetas, rs \in GroupRowSeqs}
  /\ bc = IdleBc
  /\ snap = IdleSnap

\* the grouping loop of refresh / refresh_data
Group ==
  /\ grp.pc = "input"
  /\ grp' = [grp EXCEPT !.pc = "grouped",
                         !.labels = [i \in 1..Len(grp.rows) |-> GroupOf(grp.c, grp.rows[i].service)],
                         !.grouped = GroupRows(impl, grp.c, grp.rows)]
  /\ UNCHANGED <<impl, ctx, cache, inflight, table, ticker, keys, tasks, lastCall, probe, sty,
                 bc, snap>>

NextGroup == Group

SpecGroup == InitGroup /\ [][NextGroup]_vars

\* ------------------------------------------------------------ ContextResolver
\* Python values as the resolver meets them: a float is held in tenths
PyAbsent == [t |-> "absent", n |-> 0, s |-> <<>>]

PyNone == [t |-> "None", n |-> 0, s |-> <<>>]

PyBool(b) == [t |-> "bool", n |-> IF b THEN 1 ELSE 0, s |-> <<>>]

PyFloat(tenths) == [t |-> "float", n |-> tenths, s |-> <<>>]

PyNaN == [t |-> "nan", n |-> 0, s |-> <<>>]

PyInf(sign) == [t |-> "inf", n |-> sign, s |-> <<>>]

PyStr(text) == [t |-> "str", n |-> 0, s |-> text]

\* the literal 1.0
DefaultRefresh == PyFloat(10)

LowerChar(c) ==
  IF c = "A" THEN "a" ELSE IF c = "F" THEN "f" ELSE IF c = "I" THEN "i"
  ELSE IF c = "N" THEN "n" ELSE IF c = "O" THEN "o" ELSE IF c = "T" THEN "t"
  ELSE IF c = "U" THEN "u" ELSE IF c = "Y" THEN "y" ELSE c

\* str.lower() on the letters the settings use
lower(text) == [i \in 1..Len(text) |-> LowerChar(text[i])]

AllDigits(text) == \A i \in 1..Len(text) : IsDigit(text[i])

FloatError == [ok |-> FALSE, val |-> PyNone]

\* float(text) of a Python str with at most one digit after the point:
\* surrounding whitespace, an optional sign, then nan, inf, infinity or a decimal
float(text) ==
  LET t == strip(text)
      signed == t # <<>> /\ Head(t) \in {"+", "-"}
      sign == IF signed /\ Head(t) = "-" THEN -1 ELSE 1
      body == IF signed THEN Tail(t) ELSE t
      dots == {i \in 1..Len(body) : body[i] = "."}
  IN IF lower(body) = <<"n", "a", "n">> THEN [ok |-> TRUE, val |-> PyNaN]
     ELSE IF lower(body) \in {<<"i", "n", "f">>, <<"i", "n", "f", "i", "n", "i", "t", "y">>}
          THEN [ok |-> TRUE, val |-> PyInf(sign)]
     ELSE IF dots = {}
          THEN IF body # <<>> /\ AllDigits(body)
               THEN [ok |-> TRUE, val |-> PyFloat(sign * 10 * DigitsVal(body))]
               ELSE FloatError
     ELSE IF Cardinality(dots) > 1 THEN FloatError
     ELSE LET d == CHOOSE i \in dots : TRUE
              ip == SubSeq(body, 1, d - 1)
              fp == SubSeq(body, d + 1, Len(body))
          IN IF AllDigits(ip) /\ AllDigits(fp) /\ (ip # <<>> \/ fp # <<>>)
             THEN [ok |-> TRUE,
                   val |-> PyFloat(sign * (10 * DigitsVal(ip)
                                           + IF fp = <<>> THEN 0 ELSE DigitVal(fp[1])))]
             ELSE FloatError

\* bool(v)
Truthy(v) ==
  IF v.t \in {"None", "absent"} THEN FALSE
  ELSE IF v.t \in {"bool", "float"} THEN v.n # 0
  ELSE IF v.t = "str" THEN v.s # <<>>
  ELSE TRUE

\* whether `v <= 0` can be evaluated: a str against an int raises TypeError
Comparable(v) == v.t \in {"bool", "float", "nan", "inf"}

\* v <= 0
LeZero(v) ==
  IF v.t \in {"bool", "float"} THEN v.n <= 0
  ELSE IF v.t = "inf" THEN v.n < 0
  ELSE FALSE

Resolved(v) == [exc |-> "", val |-> v]

RaisedIn(exc) == [exc |-> exc, val |-> PyNone]

\* the refresh interval of build_context: STACK_MON_REFRESH, else
\* meta.get("monitor", {}).get("refresh_seconds", 1.0), then the `<= 0` guard
ResolveRefresh(env_refresh, meta) ==
  LET first ==
        IF Truthy(env_refresh)
        THEN Resolved(IF float(env_refresh.s).ok THEN float(env_refresh.s).val
                      ELSE DefaultRefresh)
        ELSE IF meta.monitor = "absent" THEN Resolved(DefaultRefresh)
        ELSE IF meta.monitor = "null" THEN RaisedIn("AttributeError")
        ELSE IF meta.refresh_seconds = PyAbsent THEN Resolved(DefaultRefresh)
        ELSE Resolved(meta.refresh_seconds)
  IN IF first.exc # "" THEN first
     ELSE IF ~Truthy(first.val) THEN Resolved(DefaultRefresh)
     ELSE IF ~Comparable(first.val) THEN RaisedIn("TypeError")
     ELSE IF LeZero(first.val) THEN Resolved(DefaultRefresh)
     ELSE first

\* raw.split(",")
RECURSIVE split(_, _)
split(text, sep) ==
  LET hits == {i \in 1..Len(text) : text[i] = sep}
  IN IF hits = {} THEN <<text>>
     ELSE LET i == CHOOSE x \in hits : \A y \in hits : x <= y
          IN <<SubSeq(text, 1, i - 1)>> \o split(SubSeq(text, i + 1, Len(text)), sep)

\* the chunks stripped, the empty ones dropped
RECURSIVE StripNonEmpty(_)
StripNonEmpty(chunks) ==
  IF chunks = <<>> THEN <<>>
  ELSE (IF strip(Head(chunks)) # <<>> THEN <<strip(Head(chunks))>> ELSE <<>>)
       \o StripNonEmpty(Tail(chunks))

\* env_csv(name), raw being the variable's value ("" when unset)
env_csv(raw) == StripNonEmpty(split(raw, ","))

\* what a compose command answers: it raised, or the lines of out.splitlines()
CmdFailed == [failed |-> TRUE, lines |-> <<>>]

CmdOutput(lines) == [failed |-> FALSE, lines |-> lines]

\* detect_compose: the index of the first candidate whose `version` succeeds,
\* 0 when none does (sys.exit(1))
detect_compose(version) ==
  IF version[1] THEN 1 ELSE IF version[2] THEN 2 ELSE 0

list_profiles(res) == IF res.failed THEN <<>> ELSE StripNonEmpty(res.lines)

\* list_services has no try/except: a failing command raises out of it
list_services(res) ==
  IF res.failed THEN [exc |-> "CalledProcessError", val |-> <<>>]
  ELSE [exc |-> "", val |-> StripNonEmpty(res.lines)]

\* what `config --format json` answers: it raised, it was not JSON, or a document
\* whose services carry long-form port entries and profiles
CfgFailed == [failed |-> TRUE, malformed |-> FALSE, services |-> <<>>]

CfgMalformed == [failed |-> FALSE, malformed |-> TRUE, services |-> <<>>]

CfgDoc(services) == [failed |-> FALSE, malformed |-> FALSE, services |-> services]

\* compose_config_json: {} (here: no document) on any exception
compose_config_json(res) == IF res.failed \/ res.malformed THEN <<>> ELSE <<res.services>>

\* the bindings of one service's long-form port entries
RECURSIVE HostPorts(_)
HostPorts(ports) ==
  IF ports = <<>> THEN <<>>
  ELSE LET entry == Head(ports)
           host == IF entry.host_ip # <<>> THEN entry.host_ip
                   ELSE <<"l", "o", "c", "a", "l", "h", "o", "s", "t">>
       IN (IF entry.published # <<>> THEN <<<<host, int(entry.published).v>>>> ELSE <<>>)
          \o HostPorts(Tail(ports))

build_ports_map(services) ==
  [name \in {services[i].name : i \in 1..Len(services)} |->
     HostPorts((CHOOSE sv \in Range(services) : sv.name = name).ports)]

build_service_meta(services) ==
  [i \in 1..Len(services) |-> [name |-> services[i].name, profiles |-> services[i].profiles]]

NoPortMap == [k \in {} |-> <<>>]

Off == {<<"o", "f", "f">>, <<"f", "a", "l", "s", "e">>, <<"0">>, <<"n", "o">>}

\* the probe setting: off, on, auto (any service displayed has a binding);
\* anything else leaves probing on
ProbeEnabled(setting, port_map, services) ==
  IF lower(setting) \in Off THEN FALSE
  ELSE IF lower(setting) = <<"o", "n">> THEN TRUE
  ELSE IF lower(setting) = <<"a", "u", "t", "o">>
       THEN \E i \in 1..Len(services) : PortMapGet(port_map, services[i]) # <<>>
  ELSE TRUE

BcExit(refresh) ==
  [status |-> "exit", exc |-> "SystemExit", refresh |-> refresh, profiles |-> <<>>,
   services |-> <<>>, port_map |-> NoPortMap, service_meta |-> <<>>,
   probe_ports_enabled |-> FALSE, log_errors_enabled |-> FALSE]

BcRaised(exc) ==
  [status |-> "raised", exc |-> exc, refresh |-> PyNone, profiles |-> <<>>,
   services |-> <<>>, port_map |-> NoPortMap, service_meta |-> <<>>,
   probe_ports_enabled |-> FALSE, log_errors_enabled |-> FALSE]

\* build_context() on the inputs `in`: the environment variables, the metadata
\* document and what the compose commands answer. Stack identity, compose file
\* and project name are carried through unchanged and left out.
build_context(in) ==
  LET r == ResolveRefresh(in.env_refresh, in.meta)
      env_profiles == env_csv(in.env_profiles)
      env_services == env_csv(in.env_services)
      compose_cmd == detect_compose(in.version)
      profiles == IF env_profiles = <<>> /\ env_services = <<>>
                  THEN list_profiles(in.lp) ELSE env_profiles
      listed == list_services(in.ls)
      services == IF env_services = <<>> THEN listed.val ELSE env_services
      cfg_json == compose_config_json(in.cfg)
      port_map == IF cfg_json # <<>> THEN build_ports_map(cfg_json[1]) ELSE NoPortMap
      service_meta == IF cfg_json # <<>> THEN build_service_meta(cfg_json[1]) ELSE <<>>
  IN IF r.exc # "" THEN BcRaised(r.exc)
     ELSE IF compose_cmd = 0 THEN BcExit(r.val)
     ELSE IF env_services = <<>> /\ listed.exc # "" THEN BcRaised(listed.exc)
     ELSE [status |-> "ok", exc |-> "", refresh |-> r.val, profiles |-> profiles,
           services |-> services, port_map |-> port_map, service_meta |-> service_meta,
           probe_ports_enabled |-> ProbeEnabled(in.probe_setting, port_map, services),
           log_errors_enabled |-> lower(in.log_setting) \notin Off]

\* ------------------------------------------------- context-resolution harness
NameWeb == <<"w", "e", "b">>

NameDb == <<"d", "b">>

NameP1 == <<"p", "1">>

EnvRefreshInputs ==
  { PyAbsent, PyStr(<<>>), PyStr(<<"2">>), PyStr(<<"0">>), PyStr(<<"-", "1">>),
    PyStr(<<"0", ".", "5">>), PyStr(<<"a", "b", "c">>), PyStr(<<"n", "a", "n">>) }

MetaInputs ==
  { [monitor |-> "absent", refresh_seconds |-> PyAbsent],
    [monitor |-> "null", refresh_seconds |-> PyAbsent] }
  \cup { [monitor |-> "dict", refresh_seconds |-> v] :
           v \in {PyAbsent, PyNone, PyFloat(20), PyFloat(0), PyFloat(-10),
                  PyStr(<<"f", "a", "s", "t">>)} }

DemoCfg ==
  CfgDoc(<< [name |-> NameWeb,
             ports |-> <<[host_ip |-> <<>>, published |-> <<"8", "0", "8", "0">>]>>,
             profiles |-> <<NameP1>>],
            [name |-> NameDb, ports |-> <<>>, profiles |-> <<>>] >>)

BcInputs ==
  [ env_refresh : EnvRefreshInputs,
    meta : MetaInputs,
    env_profiles : {<<>>, NameP1},
    env_services : {<<>>, NameWeb \o <<",", " ">> \o NameDb},
    version : {<<TRUE, TRUE>>, <<FALSE, TRUE>>, <<FALSE, FALSE>>},
    lp : {CmdFailed, CmdOutput(<<NameP1>>)},
    ls : {CmdFailed, CmdOutput(<<NameWeb, NameDb>>)},
    cfg : {CfgFailed, CfgMalformed, DemoCfg},
    probe_setting : {<<"a", "u", "t", "o">>, <<"O", "F", "F">>},
    log_setting : {<<"o", "n">>, <<"o", "f", "f">>} ]

InitCtx ==
  /\ impl = "prompt"
  /\ ctx \in {c \in Contexts : c.probe_ports_enabled /\ c.log_errors_enabled}
  /\ cache = EmptyCache
  /\ inflight = <<>>
  /\ table = <<>>
  /\ ticker = "unstarted"
  /\ keys = 0
  /\ tasks = 0
  /\ lastCall = NoCall
  /\ probe = IdleProbe
  /\ sty = IdleSty
  /\ grp = IdleGrp
  /\ bc \in {[pc |-> "input", in |-> x, out |-> BcRaised("")] : x \in BcInputs}
  /\ snap = IdleSnap

\* main() calls build_context()
BuildContext ==
  /\ bc.pc = "input"
  /\ bc' = [bc EXCEPT !.pc = "done", !.out = build_context(bc.in)]
  /\ UNCHANGED <<impl, ctx, cache, inflight, table, ticker, keys, tasks, lastCall, probe, sty, grp, snap>>

NextCtx == BuildContext

SpecCtx == InitCtx /\ [][NextCtx]_vars

\* ----------------------------------------------------------- snapshot harness
\* up to MaxRefresh refreshes of one app, on contexts whose selection differs
\* from the discovered metadata in order and in membership
CidDb1 == <<"d", "b">> \o CidPad \o <<"1">>

\* the containers that can back each service; `extra` is selected but never up
SnapCidsOf(svc) ==
  IF svc = "web" THEN {CidWeb1, CidWeb2} ELSE IF svc = "db" THEN {CidDb1} ELSE {}

\* web publishes two ports, db none
SnapPortMap ==
  [s \in {"web", "db"} |->
     IF s = "web" THEN <<<<"localhost", 8080>>, <<"localhost", 8443>>>> ELSE <<>>]

SnapSelections == {<<"web">>, <<"db", "web">>, <<"web", "extra">>}

SnapContexts ==
  { [profiles |-> <<"p1">>, services |-> sv, port_map |-> SnapPortMap,
     service_meta |-> m, probe_ports_enabled |-> TRUE, log_errors_enabled |-> TRUE]
    : sv \in SnapSelections, m \in {<<>>, DemoMeta} }

\* a refresh within the window of the one before, or a window later
SnapTimes == {0, window}

SnapLogResults == {ScanFailed, ScanOutput(<<<<"E", "R", "R", "O", "R">>>>)}

\* nothing is asked about a service the row loop skips
NotAsked == Outcome(PsOutput(<<>>), InspectFailed, ScanFailed, <<>>)

SnapOutcomes(c, svc) ==
  {Outcome(ps, InspectFailed, ScanFailed, <<>>) :
     ps \in IF SnapCidsOf(svc) = {} THEN {PsOutput(<<>>)} ELSE {PsFailed, PsOutput(<<>>)}}
  \cup
  {Outcome(PsOutput(<<cid>>), insp, out, conn) :
     cid \in SnapCidsOf(svc), insp \in InspectResults, out \in SnapLogResults,
     conn \in ConnResults(PortMapGet(c.port_map, svc))}

RECURSIVE SnapEnvs(_, _, _)
SnapEnvs(im, c, order) ==
  IF order = <<>> THEN {<<>>}
  ELSE {<<e>> \o rest :
          e \in IF Skipped(im, c, Head(order)) THEN {NotAsked}
                ELSE SnapOutcomes(c, Head(order)),
          rest \in SnapEnvs(im, c, Tail(order))}

InitSnap ==
  /\ impl \in Impls
  /\ ctx \in SnapContexts
  /\ cache = EmptyCache
  /\ inflight = <<>>
  /\ table = <<>>
  /\ ticker = "unstarted"
  /\ keys = 0
  /\ tasks = 0
  /\ lastCall = NoCall
  /\ probe = IdleProbe
  /\ sty = IdleSty
  /\ grp = IdleGrp
  /\ bc = IdleBc
  /\ snap = [pc |-> "mounted", n |-> 0, now |-> 0, env |-> <<>>, before |-> EmptyCache,
             rows |-> <<>>]

\* one refresh: now = time.time(), then the row loop on self.log_cache
SnapRefresh ==
  /\ snap.n < MaxRefresh
  /\ \E now \in {t \in SnapTimes : t >= snap.now} :
       \E env \in SnapEnvs(impl, ctx, LoopOrder(impl, ctx)) :
         LET built == build_rows(impl, ctx, env, cache, now)
         IN /\ cache' = built.cache
            /\ snap' = [pc |-> "built", n |-> snap.n + 1, now |-> now, env |-> env,
                        before |-> cache, rows |-> built.rows]
  /\ UNCHANGED <<impl, ctx, inflight, table, ticker, keys, tasks, lastCall, probe, sty, grp, bc>>

NextSnap == SnapRefresh

SpecSnap == InitSnap /\ [][NextSnap]_vars

\* ---------------------------------------------------------------------- claims
TableRows == {table[i].row : i \in {j \in 1..Len(table) : ~IsHeader(table[j])}}

\* C1: at most one refresh is in flight at a time, in both front ends: a timer
\* tick or 'r' press that arrives while a refresh is running starts its refresh
\* only after the running one has returned.
C1_AtMostOneRefreshInFlight == Len(inflight) <= 1

\* a refresh is running while an 'r' press is buffered and the timer is due
C1_Witness == Len(inflight) = 1 /\ keys > 0 /\ ticker = "due"

\* C2: with scanning enabled, a count_errors call at `now` for an id whose entry
\* has now - ts < window returns the cached count (a cached -1 included), runs no
\* log scan and leaves the cache as it was.
C2_CachedReadWithinWindow ==
  [][ (/\ lastCall'.called
       /\ lastCall'.enabled
       /\ lastCall'.cid \in DOMAIN cache
       /\ lastCall'.now - cache[lastCall'.cid].ts < window)
      => (/\ lastCall'.ret = cache[lastCall'.cid].count
          /\ ~lastCall'.scanned
          /\ cache' = cache) ]_vars

\* a call made 5 s after a failed scan of the same id was answered -1 from the cache
C2_Witness ==
  /\ lastCall.called /\ lastCall.enabled /\ lastCall.had /\ ~lastCall.scanned
  /\ lastCall.ret = -1
  /\ lastCall.now - cache[lastCall.cid].ts = window \div 2

\* C3: an entry of the cache is only ever overwritten by one with a strictly
\* larger timestamp, whatever clock readings the calls are given, and an id once
\* in the cache stays in it.
C3_NoBackdatingNoPurge ==
  [][ \A k \in DOMAIN cache :
        /\ k \in DOMAIN cache'
        /\ (cache'[k] # cache[k] => cache'[k].ts > cache[k].ts) ]_vars

\* an entry that existed has just been overwritten by a new scan
C3_Witness ==
  /\ lastCall.called /\ lastCall.had /\ lastCall.scanned
  /\ cache[lastCall.cid].ts = lastCall.now

\* C4: with log-error scanning disabled, every row of every published table shows
\* `-` for errors and the error-count cache stays empty.
C4_DisabledScanning ==
  ~ctx.log_errors_enabled =>
    /\ cache = EmptyCache
    /\ \A r \in TableRows : r.errors = Dash

\* scanning is off and a table with a running container's row has been published
C4_Witness ==
  /\ ~ctx.log_errors_enabled
  /\ \E r \in TableRows : r.state = "running" /\ r.errors = Dash

\* C5: the row of a service whose container-id lookup yields nothing (its
\* container column is `-`) is down, `-`, `-`, `-`, whatever the flags, the
\* service's port bindings and the cache hold.
C5_DownRow ==
  \A r \in TableRows :
    r.cid = Dash =>
      r.state = "down" /\ r.health = "-" /\ r.errors = Dash /\ r.ports = Dash

\* web, which publishes a port and has a cached count, is shown down while both
\* scanning and probing are on
C5_Witness ==
  /\ ctx.log_errors_enabled /\ ctx.probe_ports_enabled
  /\ cache # EmptyCache
  /\ \E r \in TableRows :
       /\ r.service = "web" /\ r.cid = Dash /\ r.state = "down"
       /\ PortMapGet(ctx.port_map, "web") # <<>>

\* the header-per-contiguous-run grouping the specification describes
RECURSIVE RunHeaders(_, _, _)
RunHeaders(c, rows, i) ==
  IF i > Len(rows) THEN <<>>
  ELSE (IF i = 1 \/ GroupOf(c, rows[i].service) # GroupOf(c, rows[i - 1].service)
        THEN <<GroupHeader(GroupOf(c, rows[i].service)), rows[i]>>
        ELSE <<rows[i]>>) \o RunHeaders(c, rows, i + 1)

\* C6: grouping puts a header before the first row of every contiguous run of
\* rows with the same group label, so a label that comes back after another
\* group gets its header again: [a(p1), b(p2), c(p1)] with order [p1, p2] gives
\* [header p1, a, header p2, b, header p1, c].
C6_HeaderPerRun ==
  grp.pc = "grouped" => grp.grouped = RunHeaders(grp.c, grp.rows, 1)

\* text of a label `tag(k/n)`
LabelText(tag, k, n) == tag \o <<"(">> \o str(k) \o <<"/">> \o str(n) \o <<")">>

ProbeN == Len(probe.port_defs)

ProbeK == Cardinality({i \in 1..Len(probe.conn) : probe.conn[i]})

\* C8 as stated: OK(k/n) iff k = n, FAIL iff k = 0 and n > 0, PART(k/n) otherwise,
\* `-` iff n = 0, every binding attempted exactly once.
C8_AsStated ==
  probe.pc = "done" =>
    /\ (probe.result = LabelText(<<"O", "K">>, ProbeK, ProbeN)) <=> (ProbeK = ProbeN)
    /\ (probe.result = <<"F", "A", "I", "L">>) <=> (ProbeK = 0 /\ ProbeN > 0)
    /\ (probe.result = Dash) <=> (ProbeN = 0)
    /\ (probe.result = LabelText(<<"P", "A", "R", "T">>, ProbeK, ProbeN))
         <=> ~(ProbeK = ProbeN \/ (ProbeK = 0 /\ ProbeN > 0) \/ ProbeN = 0)

\* C8 (amended): probe_ports returns OK(k/n) iff k = n and n > 0, FAIL iff k = 0
\* and n > 0, PART(k/n) iff 0 < k < n, and `-` iff n = 0; every binding is
\* attempted exactly once, in order, whatever the earlier attempts gave.
C8_ProbeLabel ==
  probe.pc = "done" =>
    /\ (probe.result = LabelText(<<"O", "K">>, ProbeK, ProbeN))
         <=> (ProbeK = ProbeN /\ ProbeN > 0)
    /\ (probe.result = <<"F", "A", "I", "L">>) <=> (ProbeK = 0 /\ ProbeN > 0)
    /\ (probe.result = LabelText(<<"P", "A", "R", "T">>, ProbeK, ProbeN))
         <=> (0 < ProbeK /\ ProbeK < ProbeN)
    /\ (probe.result = Dash) <=> (ProbeN = 0)
    /\ (ProbeN > 0 => probe.st.tried = [i \in 1..ProbeN |-> i])

\* three bindings, the first unreachable, the second reachable: PART(1/3)
C8_Witness ==
  /\ probe.pc = "done" /\ ProbeN = 3
  /\ probe.conn = <<FALSE, TRUE, FALSE>>
  /\ probe.result = LabelText(<<"P", "A", "R", "T">>, 1, 3)
  /\ probe.st.tried = <<1, 2, 3>>

\* the severity a style stands for
Severity(style) ==
  IF style \in {"class:green", "green"} THEN "normal"
  ELSE IF style \in {"class:yellow", "yellow"} THEN "warn"
  ELSE IF style \in {"class:red", "red"} THEN "critical"
  ELSE "neutral"

Levels == {"normal", "warn", "critical"}

RefreshFromEnv == Truthy(bc.in.env_refresh)

RefreshInputGiven ==
  RefreshFromEnv \/ (bc.in.meta.monitor = "dict" /\ bc.in.meta.refresh_seconds # PyAbsent)

\* that input is unparsable (no number can be read from it) or non-positive
RefreshInputBad ==
  IF RefreshFromEnv
  THEN \/ ~float(bc.in.env_refresh.s).ok
       \/ (float(bc.in.env_refresh.s).val.t = "float" /\ float(bc.in.env_refresh.s).val.n <= 0)
  ELSE /\ bc.in.meta.monitor = "dict"
       /\ \/ bc.in.meta.refresh_seconds.t \in {"str", "None"}
          \/ (bc.in.meta.refresh_seconds.t = "float" /\ bc.in.meta.refresh_seconds.n <= 0)

\* the orchestration CLI is there and lists its services
CliAnswers == (bc.in.version[1] \/ bc.in.version[2]) /\ ~bc.in.ls.failed

\* C7: for every non-positive or unparsable refresh-interval input, from the
\* REFRESH override or from monitor.refresh_seconds, build_context completes
\* with the interval exactly 1.0; the resolved interval is always > 0.
C7_RefreshFallback ==
  (bc.pc = "done" /\ CliAnswers /\ bc.in.meta.monitor # "null") =>
    /\ (RefreshInputBad => bc.out.status = "ok" /\ bc.out.refresh = DefaultRefresh)
    /\ (bc.out.status = "ok" => bc.out.refresh.t = "float" /\ bc.out.refresh.n > 0)

\* C10: with a refresh interval that resolves, build_context aborts only when
\* neither form of the CLI passes the version check; a failing profile listing,
\* service listing or JSON dump leaves it completing with empty defaults.
C10_OnlyVersionCheckIsFatal ==
  (bc.pc = "done" /\ ~RefreshInputGiven /\ bc.in.meta.monitor # "null") =>
    /\ (bc.out.status # "ok") <=> (~bc.in.version[1] /\ ~bc.in.version[2])
    /\ (bc.out.status = "ok" /\ bc.in.env_profiles = <<>> /\ bc.in.env_services = <<>>
          /\ bc.in.lp.failed) => bc.out.profiles = <<>>
    /\ (bc.out.status = "ok" /\ bc.in.env_services = <<>> /\ bc.in.ls.failed)
          => bc.out.services = <<>>
    /\ (bc.out.status = "ok" /\ (bc.in.cfg.failed \/ bc.in.cfg.malformed))
          => (bc.out.port_map = NoPortMap /\ bc.out.service_meta = <<>>)

\* the services of the rows of the latest snapshot, in row order
RowServices == [i \in 1..Len(snap.rows) |-> snap.rows[i].service]

\* C11: every refresh emits exactly one row per displayed service: with an
\* explicit selection the rows are the selected services in the configured
\* order, also for a service absent from the discovered metadata; with no
\* selection they follow discovery order.
C11_RowPerDisplayedService ==
  snap.pc = "built" =>
    RowServices = IF ctx.services # <<>> THEN ctx.services
                  ELSE MetaNames(ctx.service_meta)

UpperChar(c) ==
  IF c = "a" THEN "A" ELSE IF c = "c" THEN "C" ELSE IF c = "e" THEN "E"
  ELSE IF c = "f" THEN "F" ELSE IF c = "i" THEN "I" ELSE IF c = "l" THEN "L"
  ELSE IF c = "o" THEN "O" ELSE IF c = "r" THEN "R" ELSE IF c = "t" THEN "T" ELSE c

\* the line contains ERROR, CRIT or FATAL in some letter case
SeverityAnyCase(line) ==
  LET up == [i \in 1..Len(line) |-> UpperChar(line[i])]
  IN \E w \in {<<"E", "R", "R", "O", "R">>, <<"C", "R", "I", "T">>,
               <<"F", "A", "T", "A", "L">>} : Contains(up, w)

\* C12: a fresh scan's count is the number of fetched log lines that contain
\* ERROR, CRIT or FATAL in any letter case.
C12_CaseInsensitiveCount ==
  (lastCall.called /\ lastCall.scanned /\ ~lastCall.out.failed) =>
    lastCall.ret = Cardinality({i \in 1..Len(lastCall.out.lines) :
                                  SeverityAnyCase(lastCall.out.lines[i])})

\* C13: after any sequence of refreshes, also when a service's container is
\* replaced by one with a new id, the error-count cache holds no more entries
\* than there are configured services.
C13_CacheBoundedByServices ==
  Cardinality(DOMAIN cache) <= Len(ctx.services)

\* C14: the group label of a row is the first profile in the service's declared
\* list that also appears in the configured profile order, or the first
\* declared profile when no order is configured; with no declared profile, no
\* metadata, or no declared profile in the order it is `(no-profile)`.
C14_GroupLabel ==
  grp.pc = "grouped" =>
    \A i \in 1..Len(grp.rows) :
      LET declared == MetaProfiles(grp.c.service_meta, grp.rows[i].service)
          order == grp.c.profiles
          Eligible(k) == order = <<>> \/ \E j \in 1..Len(order) : order[j] = declared[k]
      IN IF \E k \in 1..Len(declared) : Eligible(k)
         THEN \E k \in 1..Len(declared) :
                /\ Eligible(k)
                /\ \A k2 \in 1..(k - 1) : ~Eligible(k2)
                /\ grp.labels[i] = declared[k]
         ELSE grp.labels[i] = NoProfile

\* grouped: a service declaring p2 then p1 was labelled p1 under the order
\* [p1], and a service declaring only p2 was labelled (no-profile)
C14_Witness ==
  /\ grp.pc = "grouped"
  /\ grp.c.profiles = <<"p1">>
  /\ \E i \in 1..Len(grp.rows) :
       /\ MetaProfiles(grp.c.service_meta, grp.rows[i].service) = <<"p2", "p1">>
       /\ grp.labels[i] = "p1"
  /\ \E i \in 1..Len(grp.rows) :
       /\ grp.rows[i].service = "b"
       /\ grp.labels[i] = NoProfile

\* the grouped output with its group-header markers removed
RECURSIVE WithoutHeaders(_)
WithoutHeaders(grouped) ==
  IF grouped = <<>> THEN <<>>
  ELSE (IF IsHeader(Head(grouped)) THEN <<>> ELSE <<Head(grouped)>>)
       \o WithoutHeaders(Tail(grouped))

\* C15: grouping is a presentation transform only: the grouped output without
\* its header markers is exactly the input row sequence, and the input rows and
\* the resolved configuration are left as they were.
C15_GroupingKeepsRows ==
  [][grp'.pc = "grouped" =>
       /\ WithoutHeaders(grp'.grouped) = grp.rows
       /\ grp'.rows = grp.rows
       /\ grp'.c = grp.c
       /\ ctx' = ctx]_vars

\* grouped: three rows under at least two headers, one of them (no-profile)
C15_Witness ==
  /\ grp.pc = "grouped"
  /\ Len(grp.rows) = 3
  /\ Len(grp.grouped) >= 5
  /\ grp.labels[1] = NoProfile
  /\ GroupHeader(NoProfile) \in Range(grp.grouped)

\* the positions of the row loop that emit a row, and the row of position p
Displayed == {p \in 1..Len(LoopOrder(impl, ctx)) : ~Skipped(impl, ctx, LoopOrder(impl, ctx)[p])}

RowIndex(p) == Cardinality({q \in Displayed : q <= p})

RowAt(p) == snap.rows[RowIndex(p)]

IsUp(e) == get_container_id(e.ps) # <<>>

\* `docker logs` was run for the container of outcome e and failed
ScanRunAndFailed(e) ==
  /\ IsUp(e) /\ e.out.failed
  /\ \/ get_container_id(e.ps) \notin DOMAIN snap.before
     \/ snap.now - snap.before[get_container_id(e.ps)].ts >= window

Unreachable(e) == {k \in DOMAIN e.conn : ~e.conn[k]}

\* the refresh went through: a row for every displayed service, in loop order
AllRowsEmitted ==
  /\ Len(snap.rows) = Cardinality(Displayed)
  /\ \A p \in Displayed : RowAt(p).service = LoopOrder(impl, ctx)[p]

\* the sentinels of a failed lookup, a failed inspection and a failed scan
LookupInspectScanSentinels ==
  \A p \in Displayed :
    LET e == snap.env[p]
    IN /\ e.ps.failed => RowAt(p).state = "down"
       /\ (IsUp(e) /\ e.insp.failed) => (RowAt(p).state = "unknown" /\ RowAt(p).health = "n/a")
       /\ ScanRunAndFailed(e) => RowAt(p).errors = NA

\* whatever one service is answered, the rows of the others are the same
OtherRowsUntouched ==
  \A p \in Displayed :
    \A alt \in SnapOutcomes(ctx, LoopOrder(impl, ctx)[p]) :
      LET rows2 == build_rows(impl, ctx, [snap.env EXCEPT ![p] = alt], snap.before, snap.now).rows
      IN /\ Len(rows2) = Len(snap.rows)
         /\ \A q \in Displayed \ {p} : rows2[RowIndex(q)] = RowAt(q)

\* C16 as stated: a degraded result for one service never aborts the refresh;
\* its row carries the sentinel down, unknown / n/a, n/a, or FAIL as soon as a
\* port is unreachable; every other displayed service still gets its row, with
\* the values it would have had without the failure.
C16_AsStated ==
  snap.pc = "built" =>
    /\ AllRowsEmitted
    /\ LookupInspectScanSentinels
    /\ \A p \in Displayed :
         (IsUp(snap.env[p]) /\ Unreachable(snap.env[p]) # {})
           => RowAt(p).ports = <<"F", "A", "I", "L">>
    /\ OtherRowsUntouched

\* C16: a degraded result for one service never aborts the refresh; its row
\* carries down, unknown / n/a, n/a, FAIL when none of its ports is reachable
\* and PART(k/n) when only some are; every other displayed service still gets
\* its row, with the values it would have had without the failure.
C16_DegradesPerService ==
  snap.pc = "built" =>
    /\ AllRowsEmitted
    /\ LookupInspectScanSentinels
    /\ \A p \in Displayed :
         LET e == snap.env[p]
             n == Len(e.conn)
             k == n - Cardinality(Unreachable(e))
         IN (IsUp(e) /\ Unreachable(e) # {}) =>
              RowAt(p).ports = IF k = 0 THEN <<"F", "A", "I", "L">>
                               ELSE <<"P", "A", "R", "T", "(">> \o str(k) \o <<"/">>
                                    \o str(n) \o <<")">>
    /\ OtherRowsUntouched

\* a second refresh in which web's inspection and log scan failed and none of
\* its ports answered, while db's row reports a running container
C16_Witness ==
  /\ snap.pc = "built" /\ snap.n = 2
  /\ Len(snap.rows) = 2
  /\ \E i, j \in 1..2 :
       /\ snap.rows[i].service = "web" /\ snap.rows[i].state = "unknown"
       /\ snap.rows[i].errors = NA /\ snap.rows[i].ports = <<"F", "A", "I", "L">>
       /\ snap.rows[j].service = "db" /\ snap.rows[j].state = "running"

====
